---- MODULE Spec2Model ----
(***************************************************************************)
(* Model of SistemaInventario (src/codigo_proyecto.final.py): the          *)
(* in-memory store (productos, sucursales, ventas), the three JSON         *)
(* documents under data/, and the engine operations that validate, mutate  *)
(* and persist.                                                            *)
(*                                                                         *)
(* Conventions                                                             *)
(*  - a product is a record with the keys of the Python dict; the products *)
(*    of _crear_datos_de_ejemplo have no "id" key, as in the source;       *)
(*  - prices are floats in the source; they are written here in cents      *)
(*    (89.99 is 8999), float() of a number keeps the value;                *)
(*  - sucursales is a dict whose values are all {}: it is modelled by its  *)
(*    set of keys;                                                         *)
(*  - a sale's 'fecha' (datetime.now()) is not modelled;                   *)
(*  - int() and float() keep the value of a number they are given; on the  *)
(*    text of a CSV cell they parse a numeral or raise (EnteroDe,          *)
(*    DecimalDe); rows with missing cells are not modelled;                *)
(*  - str(uuid.uuid4()) is a fresh value: the count of ids drawn so far;   *)
(*    the 6 hex digits of a sale id are any value of IdsVenta;             *)
(*  - guardar_datos meets no I/O failure in Spec; in SpecIO the file       *)
(*    system may refuse to open one document for writing (OSError), which  *)
(*    guardar_datos catches: the documents before it are written, that one *)
(*    and those after it are left as they were;                            *)
(*  - Spec, SpecIO and SpecCaida are the engine alone; SpecCierre adds the  *)
(*    Tk event loop of App: one thread, callbacks (GUI handlers and the    *)
(*    root.after timer) are dispatched only while no engine call is on the *)
(*    stack; there an engine call takes two steps, its effects in memory   *)
(*    and then the completion of its document writes and its return;       *)
(*  - a reference to a product dict (a lookup result, an entry of the      *)
(*    low-stock list) is the position of the product in self.productos;    *)
(*  - every engine method is an operator from a system state s (a record   *)
(*    of memory, documents and id generator) to the state after the call   *)
(*    and the returned value.                                              *)
(***************************************************************************)
EXTENDS Integers, Sequences, FiniteSets, TLC

VARIABLES
  productos,                \* self.productos
  sucursales,               \* self.sucursales (its keys)
  ventas,                   \* self.ventas
  inventario_json,          \* data/inventario.json
  sucursales_json,          \* data/sucursales.json
  ventas_json,              \* data/ventas.json
  productos_iniciales_csv,  \* data/productos_iniciales.csv (never written)
  uuid_n,                   \* number of product ids drawn from uuid.uuid4()
  config,                   \* self.config
  falla,                    \* the document whose open(..., 'w') raises, if any
  n_guardados,              \* guardar_datos calls made by the last engine call
  cierre_realizado_hoy,     \* App.cierre_realizado_hoy
  chequeos_pendientes,      \* calls of chequear_cierre_automatico due (root.after)
  ventana,                  \* the Tk root: "abierta" or "destruida"
  n_cierres,                \* closing actions run by the trigger in this run
  en_curso,                 \* the engine call on the stack, "nada" if none
  ret,                      \* the last engine call: its name, arguments, result
  n_ops                     \* number of engine calls made so far

vars == <<productos, sucursales, ventas, inventario_json, sucursales_json,
          ventas_json, productos_iniciales_csv, uuid_n, config, falla,
          n_guardados, cierre_realizado_hoy, chequeos_pendientes, ventana,
          n_cierres, en_curso, ret, n_ops>>

(***************************************************************************)
(* Bounds of the exploration.                                              *)
(***************************************************************************)
MaxOps == 2      \* engine calls per run
MaxItems == 2    \* line items per sale
MaxFilas == 2    \* rows per imported CSV
MaxOpsRecarga == 4   \* engine calls per run in SpecRecarga

(***************************************************************************)
(* Program constant: self.config["stock_minimo_alerta"].                   *)
(***************************************************************************)
StockMinimoAlerta == 10

(***************************************************************************)
(* Input domains the callers draw from.                                    *)
(***************************************************************************)
Skus == {"TEC-001", "X-1"}
Sucursales == {"Centro", "A"}
Cantidades == {3, 5}
IdsVenta == {"VTA-0000A1", "VTA-0000B2"}
Totales == {3000}
\* the values AddProduct is called with: nombre, precio, stock
AltasProducto == { [nombre |-> "Widget", precio |-> 1000, stock |-> 5] }
CamposEditables == {"nombre", "precio", "stock"}
DatosEdicion == [nombre |-> "Widget Pro", precio |-> 1250, stock |-> 12]

\* Cells of a CSV row are text; int() and float() accept only numerals.
EnteroDe == ("4" :> 4) @@ ("5" :> 5)
DecimalDe == ("10.00" :> 1000)
FilasCsv ==
  { [sku |-> "TEC-001", nombre |-> "Teclado Mecanico", precio |-> "abc",
     stock |-> "4", sucursal |-> "Centro"],
    [sku |-> "X-1", nombre |-> "Widget", precio |-> "10.00",
     stock |-> "5", sucursal |-> "A"],
    [sku |-> "X-1", nombre |-> "Widget", precio |-> "10.00",
     stock |-> "abc", sucursal |-> "Norte"] }
CatalogoInicial ==
  << [sku |-> "X-1", nombre |-> "Widget", precio |-> "10.00",
      stock |-> "5", sucursal |-> "A"] >>

SeqsHasta(S, n) == UNION { [1..k -> S] : k \in 1..n }
ItemsVenta ==
  { [sku |-> "TEC-001", cantidad |-> 3], [sku |-> "TEC-001", cantidad |-> 5],
    [sku |-> "X-1", cantidad |-> 3] }

(***************************************************************************)
(* Documents: json.dump / json.load and the file system.                   *)
(***************************************************************************)
SinArchivo == [st |-> "missing", val |-> <<>>]
json_dump(v) == [st |-> "ok", val |-> v]
\* open() raises FileNotFoundError, json.load raises JSONDecodeError
json_legible(doc) == doc.st = "ok"
json_load(doc) == doc.val

\* the state an engine call starts from
St == [productos |-> productos, sucursales |-> sucursales, ventas |-> ventas,
       inventario_json |-> inventario_json, sucursales_json |-> sucursales_json,
       ventas_json |-> ventas_json, uuid_n |-> uuid_n, falla |-> falla,
       n_guardados |-> 0]

Memoria(s) == <<s.productos, s.sucursales, s.ventas>>
Disco(s) == <<s.inventario_json, s.sucursales_json, s.ventas_json>>

(***************************************************************************)
(* guardar_datos: overwrite the three documents, in this order.            *)
(***************************************************************************)
\* mutant: sucursales.json is not written
guardar_datos_sin_sucursales(s) ==
  [s EXCEPT !.inventario_json = json_dump(s.productos),
            !.ventas_json = json_dump(s.ventas),
            !.n_guardados = @ + 1]

\* mutant: every write has a try of its own, so a failure skips one document
guardar_datos_sigue_tras_fallo(s) ==
  [s EXCEPT !.n_guardados = @ + 1,
            !.inventario_json =
               IF s.falla = "inventario" THEN @ ELSE json_dump(s.productos),
            !.sucursales_json =
               IF s.falla = "sucursales" THEN @ ELSE json_dump(s.sucursales),
            !.ventas_json =
               IF s.falla = "ventas" THEN @ ELSE json_dump(s.ventas)]

guardar_datos(s) ==
  LET s1 == [s EXCEPT !.n_guardados = @ + 1]
  IN IF s.falla = "inventario" THEN s1
     ELSE LET s2 == [s1 EXCEPT !.inventario_json = json_dump(s.productos)]
          IN IF s.falla = "sucursales" THEN s2
             ELSE LET s3 == [s2 EXCEPT !.sucursales_json =
                                          json_dump(s.sucursales)]
                  IN IF s.falla = "ventas" THEN s3
                     ELSE [s3 EXCEPT !.ventas_json = json_dump(s.ventas)]

(***************************************************************************)
(* buscar_producto_por_sku_y_sucursal: first match of a linear scan;       *)
(* 0 stands for None.                                                      *)
(***************************************************************************)
buscar_producto_por_sku_y_sucursal(prods, sku, sucursal) ==
  LET m == { i \in 1..Len(prods) :
               prods[i].sku = sku /\ prods[i].sucursal = sucursal }
  IN IF m = {} THEN 0 ELSE CHOOSE i \in m : \A j \in m : i <= j

\* mutant: price and stock stored in each other's field
nuevo_producto_campos_cruzados(id, sku, nombre, precio, stock, sucursal) ==
  [id |-> id, sku |-> sku, nombre |-> nombre, precio |-> stock,
   stock |-> precio, sucursal |-> sucursal]

\* line 143: the dict agregar_producto appends
nuevo_producto(id, sku, nombre, precio, stock, sucursal) ==
  [id |-> id, sku |-> sku, nombre |-> nombre, precio |-> precio,
   stock |-> stock, sucursal |-> sucursal]

\* mutant: the scan gives up after the first product
ya_existe_solo_primero(prods, sku, sucursal) ==
  /\ Len(prods) > 0
  /\ prods[1].sku = sku
  /\ prods[1].sucursal = sucursal

\* line 141: the duplicate check of agregar_producto
ya_existe(prods, sku, sucursal) ==
  buscar_producto_por_sku_y_sucursal(prods, sku, sucursal) # 0

(***************************************************************************)
(* agregar_producto                                                        *)
(***************************************************************************)
agregar_producto(s, sku, nombre, precio, stock, sucursal) ==
  IF ya_existe(s.productos, sku, sucursal)
  THEN [s |-> s, ok |-> FALSE]
  ELSE [s |-> guardar_datos(
                [s EXCEPT !.productos =
                     Append(@, nuevo_producto(s.uuid_n + 1, sku, nombre,
                                              precio, stock, sucursal)),
                          !.uuid_n = @ + 1]),
        ok |-> TRUE]

(***************************************************************************)
(* procesar_carga_csv: one pass over the rows; any exception leaves the    *)
(* loop and returns failure without the final guardar_datos.               *)
(***************************************************************************)
\* mutant: the row's stock replaces the stock on hand
sumar_stock_reemplaza(stock, unidades) == unidades

\* line 129
sumar_stock(stock, unidades) == stock + unidades

RECURSIVE procesar_filas(_, _, _, _)
procesar_filas(s, filas, creados, actualizados) ==
  IF filas = <<>>
  THEN [s |-> guardar_datos(s), ok |-> TRUE,
        creados |-> creados, actualizados |-> actualizados]
  ELSE
    LET fila == Head(filas)
        s1 == [s EXCEPT !.sucursales = @ \cup {fila.sucursal}]
        i == buscar_producto_por_sku_y_sucursal(s1.productos, fila.sku,
                                                fila.sucursal)
        error == [s |-> s1, ok |-> FALSE,
                  creados |-> creados, actualizados |-> actualizados]
    IN IF i # 0
       THEN IF fila.stock \notin DOMAIN EnteroDe
            THEN error
            ELSE procesar_filas(
                   [s1 EXCEPT !.productos[i].stock =
                                 sumar_stock(@, EnteroDe[fila.stock])],
                   Tail(filas), creados, actualizados + 1)
       ELSE IF fila.precio \notin DOMAIN DecimalDe
               \/ fila.stock \notin DOMAIN EnteroDe
            THEN error
            ELSE procesar_filas(
                   agregar_producto(s1, fila.sku, fila.nombre,
                                    DecimalDe[fila.precio],
                                    EnteroDe[fila.stock], fila.sucursal).s,
                   Tail(filas), creados + 1, actualizados)

procesar_carga_csv(s, filas) == procesar_filas(s, filas, 0, 0)

(***************************************************************************)
(* _crear_datos_de_ejemplo, _configuracion_inicial, cargar_datos           *)
(***************************************************************************)
crear_datos_de_ejemplo(s) ==
  guardar_datos(
    [s EXCEPT !.sucursales = {"Centro", "Norte", "Sur"},
              !.productos =
                << [sku |-> "TEC-001", nombre |-> "Teclado Mecanico",
                    precio |-> 8999, stock |-> 15, sucursal |-> "Centro"],
                   [sku |-> "MOU-001", nombre |-> "Mouse Gamer RGB",
                    precio |-> 4550, stock |-> 35, sucursal |-> "Centro"],
                   [sku |-> "TEC-001", nombre |-> "Teclado Mecanico",
                    precio |-> 8999, stock |-> 8, sucursal |-> "Norte"] >>])

configuracion_inicial(s, csv) ==
  IF csv.existe
  THEN procesar_carga_csv(s, csv.filas).s
  ELSE crear_datos_de_ejemplo(s)

\* line 57: an empty branch registry is taken for a first run
registro_vacio(sucs) == sucs = {}

cargar_datos(s, csv) ==
  LET s1 == IF ~json_legible(s.sucursales_json)
            THEN configuracion_inicial(s, csv)
            ELSE LET a == [s EXCEPT !.sucursales = json_load(s.sucursales_json)]
                 IN IF ~json_legible(a.inventario_json)
                    THEN configuracion_inicial(a, csv)
                    ELSE LET b == [a EXCEPT !.productos =
                                               json_load(a.inventario_json)]
                         IN IF registro_vacio(b.sucursales)
                            THEN configuracion_inicial(b, csv)
                            ELSE b
  IN IF json_legible(s1.ventas_json)
     THEN [s1 EXCEPT !.ventas = json_load(s1.ventas_json)]
     ELSE [s1 EXCEPT !.ventas = <<>>]

\* __init__: empty collections, then cargar_datos
constructor(s, csv) ==
  cargar_datos([s EXCEPT !.productos = <<>>, !.sucursales = {},
                         !.ventas = <<>>], csv)

(***************************************************************************)
(* editar_producto: dict.update merges the patch into the matched dict.    *)
(***************************************************************************)
\* mutant: the merge skips the 'nombre' key
actualizar_sin_nombre(p, nuevos_datos) ==
  [k \in DOMAIN p \cup DOMAIN nuevos_datos |->
     IF k \in DOMAIN nuevos_datos /\ k # "nombre"
     THEN nuevos_datos[k] ELSE p[k]]

\* line 151: producto.update(nuevos_datos)
actualizar(p, nuevos_datos) ==
  [k \in DOMAIN p \cup DOMAIN nuevos_datos |->
     IF k \in DOMAIN nuevos_datos THEN nuevos_datos[k] ELSE p[k]]

editar_producto(s, sku, sucursal, nuevos_datos) ==
  LET i == buscar_producto_por_sku_y_sucursal(s.productos, sku, sucursal)
  IN IF i # 0
     THEN [s |-> guardar_datos(
                   [s EXCEPT !.productos[i] = actualizar(@, nuevos_datos)]),
           ok |-> TRUE]
     ELSE [s |-> s, ok |-> FALSE]

(***************************************************************************)
(* eliminar_producto: list.remove drops the first element equal to the     *)
(* matched dict.                                                           *)
(***************************************************************************)
quitar(seq, i) == [j \in 1..(Len(seq) - 1) |-> IF j < i THEN seq[j] ELSE seq[j + 1]]

\* mutant: the last element is dropped (list.pop)
list_remove_ultimo(seq, x) == SubSeq(seq, 1, Len(seq) - 1)

list_remove(seq, x) ==
  quitar(seq, CHOOSE i \in 1..Len(seq) :
                /\ seq[i] = x
                /\ \A j \in 1..(i - 1) : seq[j] # x)

eliminar_producto(s, sku, sucursal) ==
  LET i == buscar_producto_por_sku_y_sucursal(s.productos, sku, sucursal)
  IN IF i # 0
     THEN [s |-> guardar_datos(
                   [s EXCEPT !.productos = list_remove(@, s.productos[i])]),
           ok |-> TRUE]
     ELSE [s |-> s, ok |-> FALSE]

(***************************************************************************)
(* registrar_venta: validate every item, then apply every item.            *)
(***************************************************************************)
\* line 172: the item cannot be served
item_invalido(prods, item, sucursal) ==
  LET i == buscar_producto_por_sku_y_sucursal(prods, item.sku, sucursal)
  IN i = 0 \/ prods[i].stock < item.cantidad

\* mutant: one unit is taken whatever the quantity
descontar_una_unidad(stock, cantidad) == stock - 1

\* line 178
descontar(stock, cantidad) == stock - cantidad

\* mutant: strict comparison with the threshold
stock_bajo_estricto(stock) == stock < StockMinimoAlerta

\* line 179
stock_bajo(stock) == stock <= config.stock_minimo_alerta

\* mutant: a product already in the list is not listed again
anotar_bajo_sin_repetir(bajos, i) ==
  IF \E k \in 1..Len(bajos) : bajos[k] = i THEN bajos ELSE Append(bajos, i)

\* line 180
anotar_bajo(bajos, i) == Append(bajos, i)

\* lines 176-180: the apply loop; bajos collects references to products
RECURSIVE aplicar_items(_, _, _, _)
aplicar_items(prods, items, sucursal, bajos) ==
  IF items = <<>>
  THEN [productos |-> prods, bajos |-> bajos]
  ELSE LET item == Head(items)
           i == buscar_producto_por_sku_y_sucursal(prods, item.sku, sucursal)
           nuevos == [prods EXCEPT ![i].stock = descontar(@, item.cantidad)]
       IN aplicar_items(nuevos, Tail(items), sucursal,
                        IF stock_bajo(nuevos[i].stock)
                        THEN anotar_bajo(bajos, i) ELSE bajos)

\* line 182: the Sale record (without 'fecha')
nueva_venta(id, items, sucursal, total) ==
  [id |-> id, items |-> items, sucursal |-> sucursal, total |-> total]

\* lines 170-172: some item cannot be served
venta_invalida(s, items_venta, sucursal) ==
  \E k \in 1..Len(items_venta) :
     item_invalido(s.productos, items_venta[k], sucursal)

\* lines 175-183: the sale applied in memory, before guardar_datos
venta_en_memoria(s, items_venta, sucursal, total, id) ==
  [s EXCEPT !.productos =
              aplicar_items(s.productos, items_venta, sucursal, <<>>).productos,
            !.ventas = Append(@, nueva_venta(id, items_venta, sucursal, total))]

registrar_venta(s, csv, items_venta, sucursal, total, id) ==
  IF venta_invalida(s, items_venta, sucursal)
  THEN [s |-> cargar_datos(s, csv), ok |-> FALSE, bajos |-> <<>>,
        venta_id |-> "None"]
  ELSE [s |-> guardar_datos(venta_en_memoria(s, items_venta, sucursal,
                                             total, id)),
        ok |-> TRUE,
        bajos |-> aplicar_items(s.productos, items_venta, sucursal,
                                <<>>).bajos,
        venta_id |-> id]

(***************************************************************************)
(* The process dies between two of the three writes of the guardar_datos   *)
(* of a sale: the first k documents are written, the others are not.       *)
(***************************************************************************)
PuntosDeCaida == {1, 2}

\* mutant: the documents are written in the order ventas, sucursales,
\* inventario
guardar_datos_interrumpido_orden_inverso(s, k) ==
  [s EXCEPT !.n_guardados = @ + 1,
            !.ventas_json = json_dump(s.ventas),
            !.sucursales_json = IF k >= 2 THEN json_dump(s.sucursales) ELSE @]

\* lines 96-98, left after the k-th write
guardar_datos_interrumpido(s, k) ==
  [s EXCEPT !.n_guardados = @ + 1,
            !.inventario_json = json_dump(s.productos),
            !.sucursales_json = IF k >= 2 THEN json_dump(s.sucursales) ELSE @]

(***************************************************************************)
(* transferir_productos                                                    *)
(***************************************************************************)
\* mutant: the copy keeps the stock of the origin
clonar_en_destino_sin_stock(prod_origen, id, destino, cantidad) ==
  actualizar(prod_origen, [id |-> id, sucursal |-> destino])

\* mutant: the copy keeps the id of the origin
clonar_en_destino_mismo_id(prod_origen, id, destino, cantidad) ==
  actualizar(prod_origen, [sucursal |-> destino, stock |-> cantidad])

\* lines 198-199: copy of the origin dict with id, sucursal, stock replaced
clonar_en_destino(prod_origen, id, destino, cantidad) ==
  actualizar(prod_origen, [id |-> id, sucursal |-> destino, stock |-> cantidad])

\* mutant: the origin is never found short of stock
stock_insuficiente_nunca(prod_origen, cantidad) == prod_origen.stock < 0

\* line 191
stock_insuficiente(prod_origen, cantidad) == prod_origen.stock < cantidad

\* mutant: the destination receives nothing
recibir_nada(stock, cantidad) == stock

\* line 196
recibir(stock, cantidad) == stock + cantidad

transferir_productos(s, sku, cantidad, origen, destino) ==
  LET io == buscar_producto_por_sku_y_sucursal(s.productos, sku, origen)
  IN IF io = 0 THEN [s |-> s, ok |-> FALSE]
     ELSE IF stock_insuficiente(s.productos[io], cantidad)
          THEN [s |-> s, ok |-> FALSE]
     ELSE
       LET id == buscar_producto_por_sku_y_sucursal(s.productos, sku, destino)
           p1 == [s.productos EXCEPT ![io].stock = @ - cantidad]
       IN IF id # 0
          THEN [s |-> guardar_datos(
                        [s EXCEPT !.productos =
                                    [p1 EXCEPT ![id].stock =
                                                recibir(@, cantidad)]]),
                ok |-> TRUE]
          ELSE [s |-> guardar_datos(
                        [s EXCEPT !.productos =
                                    Append(p1, clonar_en_destino(
                                                 p1[io], s.uuid_n + 1,
                                                 destino, cantidad)),
                                  !.uuid_n = @ + 1]),
                ok |-> TRUE]

(***************************************************************************)
(* reinicializar_sistema                                                   *)
(***************************************************************************)
\* mutant: the branch registry survives
reinicializar_sistema_sin_sucursales(s) ==
  guardar_datos([s EXCEPT !.productos = <<>>, !.ventas = <<>>])

reinicializar_sistema(s) ==
  guardar_datos([s EXCEPT !.productos = <<>>, !.ventas = <<>>,
                          !.sucursales = {}])

(***************************************************************************)
(* The state machine: one action per engine call a caller can make.        *)
(***************************************************************************)
Pasa(s) ==
  /\ productos' = s.productos
  /\ sucursales' = s.sucursales
  /\ ventas' = s.ventas
  /\ inventario_json' = s.inventario_json
  /\ sucursales_json' = s.sucursales_json
  /\ ventas_json' = s.ventas_json
  /\ uuid_n' = s.uuid_n
  /\ n_guardados' = s.n_guardados
  /\ n_ops' = n_ops + 1
  /\ UNCHANGED <<productos_iniciales_csv, config, falla, cierre_realizado_hoy,
                 chequeos_pendientes, ventana, n_cierres, en_curso>>

\* First run: no document exists yet; the initial catalogue may be present.
Init ==
  /\ productos_iniciales_csv \in
        { [existe |-> FALSE, filas |-> <<>>],
          [existe |-> TRUE, filas |-> CatalogoInicial] }
  /\ LET s == constructor(
                [productos |-> <<>>, sucursales |-> {}, ventas |-> <<>>,
                 inventario_json |-> SinArchivo, sucursales_json |-> SinArchivo,
                 ventas_json |-> SinArchivo, uuid_n |-> 0,
                 falla |-> "ninguna", n_guardados |-> 0],
                productos_iniciales_csv)
     IN /\ productos = s.productos
        /\ sucursales = s.sucursales
        /\ ventas = s.ventas
        /\ inventario_json = s.inventario_json
        /\ sucursales_json = s.sucursales_json
        /\ ventas_json = s.ventas_json
        /\ uuid_n = s.uuid_n
        /\ n_guardados = s.n_guardados
  /\ falla = "ninguna"
  /\ cierre_realizado_hoy = FALSE
  /\ chequeos_pendientes = 1
  /\ ventana = "abierta"
  /\ n_cierres = 0
  /\ en_curso = [op |-> "nada"]
  /\ config = [stock_minimo_alerta |-> StockMinimoAlerta]
  /\ ret = [op |-> "__init__"]
  /\ n_ops = 0

\* The process ends and is started again: SistemaInventario() runs anew.
Reiniciar ==
  /\ n_ops < MaxOps
  /\ Pasa(constructor(St, productos_iniciales_csv))
  /\ ret' = [op |-> "__init__"]

AgregarProducto ==
  /\ n_ops < MaxOps
  /\ \E sku \in Skus, suc \in Sucursales, d \in AltasProducto :
       LET r == agregar_producto(St, sku, d.nombre, d.precio, d.stock, suc)
       IN /\ Pasa(r.s)
          /\ ret' = [op |-> "agregar_producto", sku |-> sku,
                     nombre |-> d.nombre, precio |-> d.precio,
                     stock |-> d.stock, sucursal |-> suc, ok |-> r.ok]

EditarProducto ==
  /\ n_ops < MaxOps
  /\ \E sku \in Skus, suc \in Sucursales, campos \in SUBSET CamposEditables :
       LET nuevos_datos == [k \in campos |-> DatosEdicion[k]]
           r == editar_producto(St, sku, suc, nuevos_datos)
       IN /\ Pasa(r.s)
          /\ ret' = [op |-> "editar_producto", sku |-> sku, sucursal |-> suc,
                     nuevos_datos |-> nuevos_datos, ok |-> r.ok]

EliminarProducto ==
  /\ n_ops < MaxOps
  /\ \E sku \in Skus, suc \in Sucursales :
       LET r == eliminar_producto(St, sku, suc)
       IN /\ Pasa(r.s)
          /\ ret' = [op |-> "eliminar_producto", sku |-> sku,
                     sucursal |-> suc, ok |-> r.ok]

RegistrarVenta ==
  /\ n_ops < MaxOps
  /\ \E items \in SeqsHasta(ItemsVenta, MaxItems), suc \in Sucursales,
        total \in Totales, id \in IdsVenta :
       LET r == registrar_venta(St, productos_iniciales_csv, items, suc,
                                total, id)
       IN /\ Pasa(r.s)
          /\ ret' = [op |-> "registrar_venta", items |-> items,
                     sucursal |-> suc, total |-> total, ok |-> r.ok,
                     bajos |-> r.bajos, venta_id |-> r.venta_id]

TransferirProductos ==
  /\ n_ops < MaxOps
  /\ \E sku \in Skus, cantidad \in Cantidades,
        origen \in Sucursales, destino \in Sucursales :
       LET r == transferir_productos(St, sku, cantidad, origen, destino)
       IN /\ Pasa(r.s)
          /\ ret' = [op |-> "transferir_productos", sku |-> sku,
                     cantidad |-> cantidad, origen |-> origen,
                     destino |-> destino, ok |-> r.ok]

ProcesarCargaCsv ==
  /\ n_ops < MaxOps
  /\ \E filas \in SeqsHasta(FilasCsv, MaxFilas) :
       LET r == procesar_carga_csv(St, filas)
       IN /\ Pasa(r.s)
          /\ ret' = [op |-> "procesar_carga_csv", filas |-> filas, ok |-> r.ok,
                     creados |-> r.creados, actualizados |-> r.actualizados]

ReinicializarSistema ==
  /\ n_ops < MaxOps
  /\ Pasa(reinicializar_sistema(St))
  /\ ret' = [op |-> "reinicializar_sistema", ok |-> TRUE]

Next ==
  \/ AgregarProducto
  \/ EditarProducto
  \/ EliminarProducto
  \/ RegistrarVenta
  \/ TransferirProductos
  \/ ProcesarCargaCsv
  \/ ReinicializarSistema
  \/ Reiniciar

Spec == Init /\ [][Next]_vars

(***************************************************************************)
(* The same machine with process crashes: a sale whose validation passed   *)
(* is applied in memory and the process dies inside its guardar_datos;     *)
(* nothing runs until the process is started again.                        *)
(***************************************************************************)
CaidaEnVenta ==
  /\ n_ops < MaxOps
  /\ ret.op # "caida"
  /\ \E items \in SeqsHasta(ItemsVenta, MaxItems), suc \in Sucursales,
        total \in Totales, id \in IdsVenta, k \in PuntosDeCaida :
       /\ ~venta_invalida(St, items, suc)
       /\ Pasa(guardar_datos_interrumpido(
                 venta_en_memoria(St, items, suc, total, id), k))
       /\ ret' = [op |-> "caida", items |-> items, sucursal |-> suc,
                  total |-> total, venta_id |-> id, escritos |-> k]

ReiniciarTrasCaida ==
  /\ ret.op = "caida"
  /\ Reiniciar

NextCaida ==
  \/ (ret.op # "caida" /\ Next)
  \/ CaidaEnVenta
  \/ ReiniciarTrasCaida

SpecCaida == Init /\ [][NextCaida]_vars

(***************************************************************************)
(* App: the engine behind the Tk event loop, with the scheduled closing    *)
(* trigger.  One process run, from App.__init__ to root.destroy().         *)
(***************************************************************************)
\* an engine call by its name and arguments, as the GUI handlers make it
llamada(s, c) ==
  CASE c.op = "agregar_producto" ->
         agregar_producto(s, c.sku, c.nombre, c.precio, c.stock, c.sucursal)
    [] c.op = "editar_producto" ->
         editar_producto(s, c.sku, c.sucursal, c.nuevos_datos)
    [] c.op = "eliminar_producto" ->
         eliminar_producto(s, c.sku, c.sucursal)
    [] c.op = "registrar_venta" ->
         registrar_venta(s, productos_iniciales_csv, c.items, c.sucursal,
                         c.total, c.venta_id)
    [] c.op = "transferir_productos" ->
         transferir_productos(s, c.sku, c.cantidad, c.origen, c.destino)
    [] c.op = "procesar_carga_csv" ->
         procesar_carga_csv(s, c.filas)
    [] c.op = "reinicializar_sistema" ->
         [s |-> reinicializar_sistema(s), ok |-> TRUE]

Llamadas ==
  { [op |-> "agregar_producto", sku |-> sku, nombre |-> d.nombre,
     precio |-> d.precio, stock |-> d.stock, sucursal |-> suc] :
       sku \in Skus, suc \in Sucursales, d \in AltasProducto }
  \cup { [op |-> "editar_producto", sku |-> sku, sucursal |-> suc,
          nuevos_datos |-> [k \in campos |-> DatosEdicion[k]]] :
            sku \in Skus, suc \in Sucursales,
            campos \in SUBSET CamposEditables }
  \cup { [op |-> "eliminar_producto", sku |-> sku, sucursal |-> suc] :
            sku \in Skus, suc \in Sucursales }
  \cup { [op |-> "registrar_venta", items |-> items, sucursal |-> suc,
          total |-> total, venta_id |-> id] :
            items \in SeqsHasta(ItemsVenta, MaxItems), suc \in Sucursales,
            total \in Totales, id \in IdsVenta }
  \cup { [op |-> "transferir_productos", sku |-> sku, cantidad |-> cantidad,
          origen |-> origen, destino |-> destino] :
            sku \in Skus, cantidad \in Cantidades, origen \in Sucursales,
            destino \in Sucursales }
  \cup { [op |-> "procesar_carga_csv", filas |-> filas] :
            filas \in SeqsHasta(FilasCsv, MaxFilas) }
  \cup { [op |-> "reinicializar_sistema"] }

\* datetime.now() at a check: the target minute or another one
Horas == {"03:00", "02:59"}

\* line 340
debe_disparar(ahora, realizado) == ahora = "03:00" /\ ~realizado

\* the state of App the trigger reads and writes
EstadoApp ==
  [cierre_realizado_hoy |-> cierre_realizado_hoy,
   chequeos_pendientes |-> chequeos_pendientes,
   ventana |-> ventana, n_cierres |-> n_cierres]

\* mutant: the closing action leaves the flag and the window alone and
\* schedules the next check
chequear_cierre_automatico_reprograma(a, ahora) ==
  IF debe_disparar(ahora, a.cierre_realizado_hoy)
  THEN [a EXCEPT !.n_cierres = @ + 1]
  ELSE a

\* lines 338-345; the call consumes one due check, root.after adds one
chequear_cierre_automatico(a, ahora) ==
  IF debe_disparar(ahora, a.cierre_realizado_hoy)
  THEN [a EXCEPT !.cierre_realizado_hoy = TRUE,
                 !.n_cierres = @ + 1,
                 !.ventana = "destruida",
                 !.chequeos_pendientes = @ - 1]
  ELSE [a EXCEPT !.chequeos_pendientes = (@ - 1) + 1]

\* mutant: the timer runs on a thread of its own
despachable_siempre(pila) == TRUE

\* root.after and the GUI handlers run on the event loop, which dispatches
\* a callback only when the previous one has returned
despachable(pila) == pila.op = "nada"

ChequearCierre ==
  /\ chequeos_pendientes > 0
  /\ ventana = "abierta"
  /\ despachable(en_curso)
  /\ \E ahora \in Horas :
       LET a == chequear_cierre_automatico(EstadoApp, ahora)
       IN /\ cierre_realizado_hoy' = a.cierre_realizado_hoy
          /\ chequeos_pendientes' = a.chequeos_pendientes
          /\ ventana' = a.ventana
          /\ n_cierres' = a.n_cierres
          /\ ret' = [op |-> "chequear_cierre_automatico", ahora |-> ahora,
                     disparo |-> (a.n_cierres # n_cierres),
                     reporte |-> ventas]
  /\ UNCHANGED <<productos, sucursales, ventas, inventario_json,
                 sucursales_json, ventas_json, productos_iniciales_csv,
                 uuid_n, config, falla, n_guardados, en_curso, n_ops>>

\* a GUI handler calls the engine: the call's effects in memory
EmpiezaLlamada ==
  /\ n_ops < MaxOps
  /\ ventana = "abierta"
  /\ en_curso.op = "nada"
  /\ \E c \in Llamadas :
       LET r == llamada(St, c)
       IN /\ productos' = r.s.productos
          /\ sucursales' = r.s.sucursales
          /\ ventas' = r.s.ventas
          /\ uuid_n' = r.s.uuid_n
          /\ en_curso' = [op |-> c.op, s |-> r.s, ok |-> r.ok]
  /\ ret' = [op |-> "en_curso"]
  /\ n_ops' = n_ops + 1
  /\ UNCHANGED <<inventario_json, sucursales_json, ventas_json,
                 productos_iniciales_csv, config, falla, n_guardados,
                 cierre_realizado_hoy, chequeos_pendientes, ventana,
                 n_cierres>>

\* the engine call completes its document writes and returns
TerminaLlamada ==
  /\ en_curso.op # "nada"
  /\ inventario_json' = en_curso.s.inventario_json
  /\ sucursales_json' = en_curso.s.sucursales_json
  /\ ventas_json' = en_curso.s.ventas_json
  /\ n_guardados' = en_curso.s.n_guardados
  /\ ret' = [op |-> "retorno", de |-> en_curso.op, ok |-> en_curso.ok]
  /\ en_curso' = [op |-> "nada"]
  /\ UNCHANGED <<productos, sucursales, ventas, productos_iniciales_csv,
                 uuid_n, config, falla, cierre_realizado_hoy,
                 chequeos_pendientes, ventana, n_cierres, n_ops>>

NextCierre ==
  \/ EmpiezaLlamada
  \/ TerminaLlamada
  \/ ChequearCierre

SpecCierre == Init /\ [][NextCierre]_vars

(***************************************************************************)
(* Longer runs of fewer operations: Reset, AddProduct, RegisterSale and    *)
(* process restarts, up to MaxOpsRecarga calls.                            *)
(***************************************************************************)
LlamadasRecarga ==
  { c \in Llamadas : c.op \in {"reinicializar_sistema", "agregar_producto",
                               "registrar_venta"} }

LlamadaRecarga ==
  /\ n_ops < MaxOpsRecarga
  /\ \E c \in LlamadasRecarga :
       LET r == llamada(St, c)
       IN /\ Pasa(r.s)
          /\ ret' = [op |-> c.op, ok |-> r.ok]

ReiniciarRecarga ==
  /\ n_ops < MaxOpsRecarga
  /\ Pasa(constructor(St, productos_iniciales_csv))
  /\ ret' = [op |-> "__init__"]

NextRecarga ==
  \/ LlamadaRecarga
  \/ ReiniciarRecarga

SpecRecarga == Init /\ [][NextRecarga]_vars

(***************************************************************************)
(* The same machine on a file system that can fail: between two engine     *)
(* calls the document that cannot be opened for writing may change.        *)
(***************************************************************************)
Fallas == {"ninguna", "inventario", "sucursales", "ventas"}

FallaDeDisco ==
  /\ falla' \in Fallas \ {falla}
  /\ UNCHANGED <<productos, sucursales, ventas, inventario_json,
                 sucursales_json, ventas_json, productos_iniciales_csv,
                 uuid_n, config, n_guardados, cierre_realizado_hoy,
                 chequeos_pendientes, ventana, n_cierres, en_curso, ret,
                 n_ops>>

NextIO ==
  \/ Next
  \/ FallaDeDisco

SpecIO == Init /\ [][NextIO]_vars

(***************************************************************************)
(* Properties.                                                             *)
(***************************************************************************)
Claves(prods) == { <<prods[i].sku, prods[i].sucursal>> : i \in 1..Len(prods) }
Persistido(prods, sucs, vts) ==
  <<json_dump(prods), json_dump(sucs), json_dump(vts)>>
Rango(seq) == { seq[i] : i \in 1..Len(seq) }

RECURSIVE cantidad_total(_, _)
cantidad_total(items, sku) ==
  IF items = <<>> THEN 0
  ELSE (IF Head(items).sku = sku THEN Head(items).cantidad ELSE 0)
       + cantidad_total(Tail(items), sku)

\* C1: the product collection never holds two products with the same
\* (sku, sucursal) pair.
C1_ClaveUnica ==
  \A i, j \in 1..Len(productos) :
    (productos[i].sku = productos[j].sku
     /\ productos[i].sucursal = productos[j].sucursal) => i = j

\* C1 witness: a second AddProduct for a pair already in a store of several
\* products has been rejected.
C1_Testigo ==
  /\ ret.op = "agregar_producto"
  /\ ~ret.ok
  /\ Len(productos) > 1
  /\ uuid_n > 0

\* C2: with stocks >= 0 supplied and quantities > 0, every product's stock
\* is >= 0 in every reachable state.
C2_StockNoNegativo ==
  \A i \in 1..Len(productos) : productos[i].stock >= 0

\* C3: a RegisterSale in which some line item fails validation returns
\* (False, [], None) and leaves the in-memory products and sale log as they
\* were before the call.
C3_VentaRechazadaNoMuta ==
  [][(ret'.op = "registrar_venta"
      /\ \E k \in 1..Len(ret'.items) :
            item_invalido(productos, ret'.items[k], ret'.sucursal))
     => (/\ ~ret'.ok
         /\ ret'.bajos = <<>>
         /\ ret'.venta_id = "None"
         /\ productos' = productos
         /\ ventas' = ventas)]_vars

\* C4 as claimed: every successful TransferStock, origin and destination
\* equal or not, takes qty from the origin and adds qty to an existing
\* destination or creates one product with stock qty.
C4_TransferenciaCualquierDestino ==
  [][(ret'.op = "transferir_productos" /\ ret'.ok) =>
       LET io == buscar_producto_por_sku_y_sucursal(productos, ret'.sku,
                                                    ret'.origen)
           id == buscar_producto_por_sku_y_sucursal(productos, ret'.sku,
                                                    ret'.destino)
       IN /\ productos'[io].stock = productos[io].stock - ret'.cantidad
          /\ IF id # 0
             THEN /\ Len(productos') = Len(productos)
                  /\ productos'[id].stock = productos[id].stock + ret'.cantidad
             ELSE /\ Len(productos') = Len(productos) + 1
                  /\ productos'[Len(productos')].stock = ret'.cantidad]_vars

\* C4 amended: every successful TransferStock with origin # destination
\* takes qty from the origin's stock; an existing destination product gains
\* qty; otherwise exactly one product is added, with stock qty.
C4_TransferenciaConserva ==
  [][(ret'.op = "transferir_productos" /\ ret'.ok
      /\ ret'.origen # ret'.destino) =>
       LET io == buscar_producto_por_sku_y_sucursal(productos, ret'.sku,
                                                    ret'.origen)
           id == buscar_producto_por_sku_y_sucursal(productos, ret'.sku,
                                                    ret'.destino)
       IN /\ io # 0
          /\ productos'[io].stock = productos[io].stock - ret'.cantidad
          /\ IF id # 0
             THEN /\ Len(productos') = Len(productos)
                  /\ productos'[id].stock = productos[id].stock + ret'.cantidad
             ELSE /\ Len(productos') = Len(productos) + 1
                  /\ productos'[Len(productos')].stock = ret'.cantidad
                  /\ productos'[Len(productos')].sku = ret'.sku
                  /\ productos'[Len(productos')].sucursal = ret'.destino]_vars

\* C4 witness: a transfer between two different branches has succeeded
\* into a destination that already held the sku.
C4_Testigo ==
  /\ ret.op = "transferir_productos"
  /\ ret.ok
  /\ ret.origen # ret.destino
  /\ \E i \in 1..Len(productos) :
       /\ productos[i].sku = ret.sku
       /\ productos[i].sucursal = ret.destino
       /\ productos[i].stock > ret.cantidad

\* C5: in every reachable state, Save followed by Load leaves the in-memory
\* products, branches and sales as they were.
C5_GuardarCargar ==
  Memoria(cargar_datos(guardar_datos(St), productos_iniciales_csv))
    = Memoria(St)

\* C6: a BulkImport that returns failure leaves the three persisted
\* documents as they were before the call.
C6_CargaFallidaNoPersiste ==
  [][(ret'.op = "procesar_carga_csv" /\ ~ret'.ok) =>
       <<inventario_json', sucursales_json', ventas_json'>>
         = <<inventario_json, sucursales_json, ventas_json>>]_vars

\* C7: after a successful RegisterSale, a product resolved by a line item
\* is in the returned low-stock list iff its stock after the sale is <= the
\* threshold.
C7_StockBajo ==
  (ret.op = "registrar_venta" /\ ret.ok) =>
    \A k \in 1..Len(ret.items) :
      LET i == buscar_producto_por_sku_y_sucursal(productos, ret.items[k].sku,
                                                  ret.sucursal)
      IN /\ i # 0
         /\ (i \in Rango(ret.bajos))
              <=> (productos[i].stock <= StockMinimoAlerta)

\* C7 witness: a successful sale of two products, one reported as low on
\* stock and one not.
C7_Testigo ==
  /\ ret.op = "registrar_venta"
  /\ ret.ok
  /\ \E k, l \in 1..Len(ret.items) :
       /\ buscar_producto_por_sku_y_sucursal(
            productos, ret.items[k].sku, ret.sucursal) \in Rango(ret.bajos)
       /\ buscar_producto_por_sku_y_sucursal(
            productos, ret.items[l].sku, ret.sucursal) \notin Rango(ret.bajos)

\* C8: a RegisterSale whose items all resolve with stock >= quantity
\* succeeds, takes from each product of the branch the sum of the quantities
\* of the items naming its sku, changes no other product, and appends one
\* Sale with the given items, branch and total.
C8_VentaDescuenta ==
  [][(ret'.op = "registrar_venta"
      /\ \A k \in 1..Len(ret'.items) :
            ~item_invalido(productos, ret'.items[k], ret'.sucursal))
     => (/\ ret'.ok
         /\ Len(productos') = Len(productos)
         /\ \A i \in 1..Len(productos) :
              productos'[i] =
                IF productos[i].sucursal = ret'.sucursal
                THEN [productos[i] EXCEPT
                        !.stock = @ - cantidad_total(ret'.items,
                                                     productos[i].sku)]
                ELSE productos[i]
         /\ ventas' = Append(ventas, [id |-> ret'.venta_id,
                                      items |-> ret'.items,
                                      sucursal |-> ret'.sucursal,
                                      total |-> ret'.total])
         /\ sucursales' = sucursales)]_vars

\* C8 witness: RegisterSale([{X-1, 3}], A, 30.00) on X-1 with stock 5 in A
\* has succeeded and left stock 2.
C8_Testigo ==
  /\ ret.op = "registrar_venta"
  /\ ret.ok
  /\ ret.items = << [sku |-> "X-1", cantidad |-> 3] >>
  /\ ret.sucursal = "A"
  /\ \E i \in 1..Len(productos) :
       /\ productos[i].sku = "X-1"
       /\ productos[i].sucursal = "A"
       /\ productos[i].stock = 2
  /\ ventas[Len(ventas)].total = 3000

\* C9: AddProduct fails and changes nothing in memory or on disk when the
\* (sku, branch) exists; otherwise it appends one product with the given
\* fields, leaves the others unchanged, persists and succeeds.
C9_AgregarProducto ==
  [][(ret'.op = "agregar_producto") =>
       IF <<ret'.sku, ret'.sucursal>> \in Claves(productos)
       THEN /\ ~ret'.ok
            /\ <<productos', sucursales', ventas'>>
                 = <<productos, sucursales, ventas>>
            /\ <<inventario_json', sucursales_json', ventas_json'>>
                 = <<inventario_json, sucursales_json, ventas_json>>
       ELSE /\ ret'.ok
            /\ Len(productos') = Len(productos) + 1
            /\ SubSeq(productos', 1, Len(productos)) = productos
            /\ LET p == productos'[Len(productos')]
               IN /\ p.sku = ret'.sku
                  /\ p.nombre = ret'.nombre
                  /\ p.precio = ret'.precio
                  /\ p.stock = ret'.stock
                  /\ p.sucursal = ret'.sucursal
            /\ <<sucursales', ventas'>> = <<sucursales, ventas>>
            /\ <<inventario_json', sucursales_json', ventas_json'>>
                 = Persistido(productos', sucursales', ventas')]_vars

\* C9 witness: an AddProduct has succeeded in a store that already held
\* products.
C9_Testigo ==
  /\ ret.op = "agregar_producto"
  /\ ret.ok
  /\ Len(productos) > 1
  /\ productos[Len(productos)].sku = ret.sku
  /\ productos[Len(productos)].sucursal = ret.sucursal

\* C10: EditProduct fails and changes nothing when no product matches;
\* otherwise the matched product takes exactly the patch values, keeps its
\* other fields, nothing else changes, and the result is persisted.
C10_EditarProducto ==
  [][(ret'.op = "editar_producto") =>
       LET i == buscar_producto_por_sku_y_sucursal(productos, ret'.sku,
                                                   ret'.sucursal)
           patch == ret'.nuevos_datos
       IN IF i = 0
          THEN /\ ~ret'.ok
               /\ <<productos', sucursales', ventas'>>
                    = <<productos, sucursales, ventas>>
               /\ <<inventario_json', sucursales_json', ventas_json'>>
                    = <<inventario_json, sucursales_json, ventas_json>>
          ELSE /\ ret'.ok
               /\ Len(productos') = Len(productos)
               /\ \A j \in 1..Len(productos) :
                    j # i => productos'[j] = productos[j]
               /\ DOMAIN productos'[i] = DOMAIN productos[i]
               /\ \A k \in DOMAIN productos[i] :
                    productos'[i][k] =
                      IF k \in DOMAIN patch THEN patch[k] ELSE productos[i][k]
               /\ <<sucursales', ventas'>> = <<sucursales, ventas>>
               /\ <<inventario_json', sucursales_json', ventas_json'>>
                    = Persistido(productos', sucursales', ventas')]_vars

\* C10 witness: an EditProduct with a patch of the price alone has
\* succeeded.
C10_Testigo ==
  /\ ret.op = "editar_producto"
  /\ ret.ok
  /\ DOMAIN ret.nuevos_datos = {"precio"}
  /\ \E i \in 1..Len(productos) :
       /\ productos[i].sku = ret.sku
       /\ productos[i].sucursal = ret.sucursal
       /\ productos[i].precio = DatosEdicion.precio
       /\ productos[i].nombre # DatosEdicion.nombre

\* C11: DeleteProduct fails and changes nothing when no product matches;
\* otherwise it removes exactly the product the lookup returns, the lookup
\* then returns none, the other products keep their values and order, and
\* the result is persisted.
C11_EliminarProducto ==
  [][(ret'.op = "eliminar_producto") =>
       LET i == buscar_producto_por_sku_y_sucursal(productos, ret'.sku,
                                                   ret'.sucursal)
       IN IF i = 0
          THEN /\ ~ret'.ok
               /\ <<productos', sucursales', ventas'>>
                    = <<productos, sucursales, ventas>>
               /\ <<inventario_json', sucursales_json', ventas_json'>>
                    = <<inventario_json, sucursales_json, ventas_json>>
          ELSE /\ ret'.ok
               /\ Len(productos') = Len(productos) - 1
               /\ \A j \in 1..Len(productos') :
                    productos'[j] = IF j < i THEN productos[j]
                                    ELSE productos[j + 1]
               /\ buscar_producto_por_sku_y_sucursal(
                    productos', ret'.sku, ret'.sucursal) = 0
               /\ <<sucursales', ventas'>> = <<sucursales, ventas>>
               /\ <<inventario_json', sucursales_json', ventas_json'>>
                    = Persistido(productos', sucursales', ventas')]_vars

\* C11 witness: the first of the three sample products has been deleted and
\* the two others remain, in their order.
C11_Testigo ==
  /\ ret.op = "eliminar_producto"
  /\ ret.ok
  /\ ret.sku = "TEC-001"
  /\ ret.sucursal = "Centro"
  /\ Len(productos) = 2
  /\ productos[1].sku = "MOU-001"
  /\ productos[2].sucursal = "Norte"

\* C12: when a transfer succeeds and the destination had no product of that
\* sku, exactly one product is appended: sku, nombre and precio of the
\* origin, sucursal = destino, stock = cantidad, and an id that is not the
\* origin's; the origin keeps its id and sucursal and every other product
\* is untouched.
C12_TransferenciaClona ==
  [][(/\ ret'.op = "transferir_productos"
      /\ ret'.ok
      /\ buscar_producto_por_sku_y_sucursal(productos, ret'.sku,
                                            ret'.destino) = 0) =>
       LET io == buscar_producto_por_sku_y_sucursal(productos, ret'.sku,
                                                    ret'.origen)
           o == productos[io]
           n == productos'[Len(productos')]
       IN /\ Len(productos') = Len(productos) + 1
          /\ n.sku = o.sku
          /\ n.nombre = o.nombre
          /\ n.precio = o.precio
          /\ n.sucursal = ret'.destino
          /\ n.stock = ret'.cantidad
          /\ "id" \in DOMAIN n
          /\ ("id" \in DOMAIN o) => (n.id # o.id)
          /\ productos'[io] = [o EXCEPT !.stock = @ - ret'.cantidad]
          /\ \A j \in 1..Len(productos) :
               (j # io) => (productos'[j] = productos[j])]_vars

\* C12 witness: the only operation so far was a transfer from a product
\* that carries an id to a branch without that sku; the copy is the second
\* product and carries the second id handed out.
C12_Testigo ==
  /\ ret.op = "transferir_productos"
  /\ ret.ok
  /\ n_ops = 1
  /\ Len(productos) = 2
  /\ "id" \in DOMAIN productos[1]
  /\ productos[1].sucursal = ret.origen
  /\ productos[2].sucursal = ret.destino
  /\ productos[2].stock = ret.cantidad
  /\ productos[2].id # productos[1].id

\* C13: a transfer whose origin product does not exist, or holds less than
\* the quantity, fails and leaves memory, the documents and the id counter
\* as they were.
C13_TransferenciaRechazada ==
  [][(ret'.op = "transferir_productos") =>
       LET io == buscar_producto_por_sku_y_sucursal(productos, ret'.sku,
                                                    ret'.origen)
       IN (io = 0 \/ productos[io].stock < ret'.cantidad) =>
            /\ ~ret'.ok
            /\ <<productos', sucursales', ventas', uuid_n'>>
                 = <<productos, sucursales, ventas, uuid_n>>
            /\ <<inventario_json', sucursales_json', ventas_json'>>
                 = <<inventario_json, sucursales_json, ventas_json>>]_vars

\* C13 witness: a transfer has been refused although the origin product
\* exists, because it holds less than the quantity asked for.
C13_Testigo ==
  /\ ret.op = "transferir_productos"
  /\ ~ret.ok
  /\ \E i \in 1..Len(productos) :
       /\ productos[i].sku = ret.sku
       /\ productos[i].sucursal = ret.origen
       /\ productos[i].stock < ret.cantidad

\* C14: an import whose rows all parse succeeds, and a successful import
\* reports creados + actualizados = number of rows with creados = number of
\* products gained; every product's stock is its stock before the import
\* (0 if it did not exist) plus the stock of every row with its key; nombre
\* and precio of products that existed are unchanged; every branch named by
\* a row is registered.
RECURSIVE stock_de_filas(_, _, _)
stock_de_filas(filas, sku, sucursal) ==
  IF filas = <<>> THEN 0
  ELSE (IF Head(filas).sku = sku /\ Head(filas).sucursal = sucursal
        THEN EnteroDe[Head(filas).stock] ELSE 0)
       + stock_de_filas(Tail(filas), sku, sucursal)

fila_bien_formada(fila) ==
  fila.precio \in DOMAIN DecimalDe /\ fila.stock \in DOMAIN EnteroDe

C14_CargaCsv ==
  [][(ret'.op = "procesar_carga_csv") =>
       LET filas == ret'.filas
       IN /\ (\A k \in 1..Len(filas) : fila_bien_formada(filas[k])) => ret'.ok
          /\ ret'.ok =>
               /\ ret'.creados + ret'.actualizados = Len(filas)
               /\ ret'.creados = Len(productos') - Len(productos)
               /\ Claves(productos') =
                    Claves(productos)
                      \cup { <<filas[k].sku, filas[k].sucursal>> :
                               k \in 1..Len(filas) }
               /\ \A j \in 1..Len(productos') :
                    LET p == productos'[j]
                        i == buscar_producto_por_sku_y_sucursal(
                               productos, p.sku, p.sucursal)
                    IN /\ p.stock =
                            (IF i = 0 THEN 0 ELSE productos[i].stock)
                            + stock_de_filas(filas, p.sku, p.sucursal)
                       /\ (i # 0) =>
                            /\ p.nombre = productos[i].nombre
                            /\ p.precio = productos[i].precio
               /\ \A k \in 1..Len(filas) : filas[k].sucursal \in sucursales']_vars

\* C14 witness: a successful import that created a product and added a
\* row's stock to a product already there.
C14_Testigo ==
  /\ ret.op = "procesar_carga_csv"
  /\ ret.ok
  /\ ret.creados >= 1
  /\ ret.actualizados >= 1

\* C15: reinicializar_sistema, from any state, empties productos, ventas
\* and sucursales, leaves config as it was, writes the empty collections to
\* the three documents, and returns success.
C15_Reinicializar ==
  [][(ret'.op = "reinicializar_sistema") =>
       /\ ret'.ok
       /\ productos' = <<>>
       /\ ventas' = <<>>
       /\ sucursales' = {}
       /\ config' = config
       /\ inventario_json' = json_dump(<<>>)
       /\ sucursales_json' = json_dump({})
       /\ ventas_json' = json_dump(<<>>)]_vars

\* C15 witness: the system has been reset after products had been created
\* and a first call had been made.
C15_Testigo ==
  /\ ret.op = "reinicializar_sistema"
  /\ n_ops = 2
  /\ uuid_n >= 1
  /\ productos = <<>>
  /\ sucursales = {}
  /\ ventas = <<>>
  /\ ventas_json = json_dump(<<>>)

\* C16: with no I/O failure, right after a mutating operation has returned
\* success the three documents hold the whole of productos, sucursales and
\* ventas as they are in memory, whatever an earlier aborted operation left
\* there.
OperacionesQueMutan ==
  {"agregar_producto", "editar_producto", "eliminar_producto",
   "registrar_venta", "transferir_productos", "procesar_carga_csv",
   "reinicializar_sistema"}

C16_ExitoPersisteTodo ==
  (ret.op \in OperacionesQueMutan /\ ret.ok) =>
    (<<inventario_json, sucursales_json, ventas_json>>
       = Persistido(productos, sucursales, ventas))

\* C16 witness: an import aborted on its row for "Norte" after registering
\* that branch in memory only; the product added next was saved and the
\* branch with it.
C16_Testigo ==
  /\ productos_iniciales_csv.existe
  /\ ret.op = "agregar_producto"
  /\ ret.ok
  /\ "Norte" \in sucursales
  /\ sucursales_json = json_dump(sucursales)

\* C17: when a sale fails validation, productos, sucursales and ventas
\* after the call are the contents of the three documents as the last
\* guardar_datos before the call wrote them.
C17_VentaRechazadaRecarga ==
  [][(ret'.op = "registrar_venta" /\ ~ret'.ok) =>
       /\ productos' = json_load(inventario_json)
       /\ sucursales' = json_load(sucursales_json)
       /\ ventas' = json_load(ventas_json)]_vars

\* C19: EditProduct, DeleteProduct, Reset and RegisterSale, successful or
\* not, never bring into the store a product whose (sku, sucursal) was not
\* there before the call.
C19_SoloAltasCreanProductos ==
  [][(ret'.op \in {"editar_producto", "eliminar_producto",
                   "reinicializar_sistema", "registrar_venta"}) =>
       (Claves(productos') \subseteq Claves(productos))]_vars

\* C18: within a run, whatever the file system does, every engine call
\* other than Reset leaves the sale log with its former contents as a
\* prefix, each former record unchanged.
C18_VentasSoloCrecen ==
  [][(ret'.op \notin {"reinicializar_sistema", "__init__"}) =>
       /\ Len(ventas) <= Len(ventas')
       /\ SubSeq(ventas', 1, Len(ventas)) = ventas]_vars

\* C20: a call of procesar_carga_csv calls guardar_datos once if every row
\* was processed and not at all otherwise.
C20_CargaCsvGuardaUnaVez ==
  (ret.op = "procesar_carga_csv") =>
    (n_guardados = IF ret.ok THEN 1 ELSE 0)

\* C21: the low-stock list of a successful sale has, in line-item order,
\* one entry for each line item whose product's stock right after that
\* item's decrement is <= the threshold, and no entry for the other items;
\* a product referenced by several such items is listed once per item.
RECURSIVE bajos_esperados(_, _, _, _)
bajos_esperados(prods, items, sucursal, k) ==
  IF k = 0 THEN <<>>
  ELSE LET i == buscar_producto_por_sku_y_sucursal(prods, items[k].sku,
                                                   sucursal)
           resto == bajos_esperados(prods, items, sucursal, k - 1)
       IN IF prods[i].stock - cantidad_total(SubSeq(items, 1, k), items[k].sku)
               <= StockMinimoAlerta
          THEN Append(resto, i) ELSE resto

C21_ListaStockBajo ==
  [][(ret'.op = "registrar_venta" /\ ret'.ok) =>
       (ret'.bajos = bajos_esperados(productos, ret'.items, ret'.sucursal,
                                     Len(ret'.items)))]_vars

\* C21 witness: a successful sale with two line items for one product, both
\* leaving it at or below the threshold: the product is listed twice.
C21_Testigo ==
  /\ ret.op = "registrar_venta"
  /\ ret.ok
  /\ Len(ret.items) = 2
  /\ ret.items[1].sku = ret.items[2].sku
  /\ Len(ret.bajos) = 2
  /\ ret.bajos[1] = ret.bajos[2]

venta_sin_descuento(m, d) ==
  /\ d.ventas_json = json_dump(m.ventas)
  /\ d.inventario_json # json_dump(m.productos)

descuento_sin_venta(m, d) ==
  /\ d.inventario_json = json_dump(m.productos)
  /\ d.ventas_json # json_dump(m.ventas)

C23_CaidaEnAmbosSentidos ==
  [][(ret'.op = "caida") =>
       LET m == venta_en_memoria(St, ret'.items, ret'.sucursal, ret'.total,
                                 ret'.venta_id)
           caidas == { guardar_datos_interrumpido(m, k) : k \in PuntosDeCaida }
       IN /\ \E d \in caidas : venta_sin_descuento(m, d)
          /\ \E d \in caidas : descuento_sin_venta(m, d)]_vars

\* C23 amended: every crash between the writes of a sale's guardar_datos
\* leaves inventario.json with the stock decrement and ventas.json without
\* the sale; never ventas.json with the sale and inventario.json without
\* the decrement.
C23_CaidaEnUnSentido ==
  [][(ret'.op = "caida") =>
       /\ inventario_json' = json_dump(productos')
       /\ ventas_json' = ventas_json
       /\ ventas_json' # json_dump(ventas')]_vars

\* C23 witness: the process died after writing inventario.json and
\* sucursales.json: the decrement is on disk, the sale is not.
C23_Testigo ==
  /\ ret.op = "caida"
  /\ ret.escritos = 2
  /\ inventario_json = json_dump(productos)
  /\ Len(ventas) = 1
  /\ ventas_json = json_dump(<<>>)

\* C24: the trigger runs its closing action at most once per process run;
\* a check in the target minute with the flag unset runs it, sets the flag,
\* destroys the window and leaves no check due; every other check leaves
\* exactly one check due and changes nothing else.
C24_CierreUnaVez ==
  [][(ret'.op = "chequear_cierre_automatico") =>
       /\ n_cierres' <= 1
       /\ IF ret'.ahora = "03:00" /\ ~cierre_realizado_hoy
          THEN /\ ret'.disparo
               /\ n_cierres' = n_cierres + 1
               /\ cierre_realizado_hoy'
               /\ ventana' = "destruida"
               /\ chequeos_pendientes' = 0
          ELSE /\ ~ret'.disparo
               /\ chequeos_pendientes' = 1
               /\ <<n_cierres', cierre_realizado_hoy', ventana'>>
                    = <<n_cierres, cierre_realizado_hoy, ventana>>]_vars

\* C24 witness: after an engine call has returned, a check fell in the
\* target minute and the closing action ran.
C24_Testigo ==
  /\ ret.op = "chequear_cierre_automatico"
  /\ ret.disparo
  /\ n_ops >= 1
  /\ n_cierres = 1
  /\ ventana = "destruida"
  /\ chequeos_pendientes = 0

\* C25: a check of the trigger, closing action included, runs only while no
\* engine call is on the stack, so the documents it finds are those the
\* last call left when it returned, and it changes neither productos,
\* sucursales, ventas nor the documents.
C25_CierreNoSeIntercala ==
  [][(ret'.op = "chequear_cierre_automatico") =>
       /\ en_curso.op = "nada"
       /\ en_curso'.op = "nada"
       /\ ret'.reporte = ventas
       /\ <<productos', sucursales', ventas'>>
            = <<productos, sucursales, ventas>>
       /\ <<inventario_json', sucursales_json', ventas_json'>>
            = <<inventario_json, sucursales_json, ventas_json>>]_vars

\* C25 witness: the closing action ran after a sale had returned; its
\* report lists the sale, which is in ventas.json.
C25_Testigo ==
  /\ ret.op = "chequear_cierre_automatico"
  /\ ret.disparo
  /\ Len(ret.reporte) = 1
  /\ en_curso.op = "nada"
  /\ ventas_json = json_dump(ret.reporte)

\* C26: the sales of the sale log have pairwise distinct ids.
C26_IdsDeVentaDistintos ==
  \A i, j \in 1..Len(ventas) : (i # j) => (ventas[i].id # ventas[j].id)

\* C27: every product in the store carries an id, and no two products
\* share one.
C27_IdsDeProducto ==
  /\ \A i \in 1..Len(productos) : "id" \in DOMAIN productos[i]
  /\ \A i, j \in 1..Len(productos) :
       (i # j) => (productos[i].id # productos[j].id)

\* C29: the sucursal of every product in the store is in the branch
\* registry.
C29_SucursalRegistrada ==
  \A i \in 1..Len(productos) : productos[i].sucursal \in sucursales

\* C30: a successful transfer, origin and destination equal or not, leaves
\* the total stock of the sku over all branches unchanged, and leaves the
\* products of other skus, the branch registry and the sale log unchanged.
RECURSIVE stock_total(_, _)
stock_total(prods, sku) ==
  IF prods = <<>> THEN 0
  ELSE (IF Head(prods).sku = sku THEN Head(prods).stock ELSE 0)
       + stock_total(Tail(prods), sku)

C30_TransferenciaConservaTotal ==
  [][(ret'.op = "transferir_productos" /\ ret'.ok) =>
       /\ stock_total(productos', ret'.sku) = stock_total(productos, ret'.sku)
       /\ Len(productos') >= Len(productos)
       /\ \A j \in 1..Len(productos') :
            IF j <= Len(productos) /\ productos[j].sku # ret'.sku
            THEN productos'[j] = productos[j]
            ELSE productos'[j].sku = ret'.sku
       /\ sucursales' = sucursales
       /\ ventas' = ventas]_vars

\* C30 witness: a transfer from a branch to itself succeeded.
C30_Testigo ==
  /\ ret.op = "transferir_productos"
  /\ ret.ok
  /\ ret.origen = ret.destino

\* C28: cargar_datos, at process start or as the reload of a failed sale,
\* keeps a well-formed ventas.json: afterwards the in-memory sale log and
\* ventas.json both equal ventas.json as it was before, also when the load
\* runs the first-run configuration.
C28_CargaConservaVentas ==
  [][((ret'.op = "__init__" \/ (ret'.op = "registrar_venta" /\ ~ret'.ok))
      /\ n_ops' = n_ops + 1
      /\ json_legible(ventas_json)) =>
       /\ ventas' = json_load(ventas_json)
       /\ ventas_json' = ventas_json]_vars

====
